---------------------------- MODULE Spec2Model ----------------------------
(***************************************************************************)
(* The static-maps client of spending_money_on_apis: construction          *)
(* (credential resolution), get_map (parameter building, one GET, status   *)
(* check, optional persistence) and get_map_url (URL construction).        *)
(*                                                                         *)
(* Text is a sequence of atoms.  An atom is either a word made only of     *)
(* characters that percent-encoding leaves alone (letters, digits, "_",    *)
(* ".", "-", "~"), or one single reserved character (" ", ",", "|", ":",   *)
(* "=", "&", "?", "/", "[", "]", "{", "}", "'"), or one escape produced by *)
(* quote_plus ("+", "%2C", ...).  Two words are never adjacent in the      *)
(* texts built here, so equal texts have equal atom sequences.             *)
(***************************************************************************)
EXTENDS Integers, Sequences, FiniteSets, TLC

(***************************************************************************)
(* Bounds of the model.                                                    *)
(***************************************************************************)
\* longest marker list passed by a caller
MaxMarkers == 2
\* deepest destination path (number of components, file name included)
MaxDepth == 3

(***************************************************************************)
(* Sequence helpers.                                                       *)
(***************************************************************************)
RECURSIVE Flatten(_)
Flatten(parts) == IF parts = <<>> THEN <<>> ELSE Head(parts) \o Flatten(Tail(parts))

\* Python's sep.join(parts)
RECURSIVE Join(_, _)
Join(parts, sep) ==
    IF parts = <<>> THEN <<>>
    ELSE IF Len(parts) = 1 THEN parts[1]
    ELSE parts[1] \o sep \o Join(Tail(parts), sep)

\* Python's text.split(sep) for a one-atom separator
RECURSIVE Split(_, _)
Split(text, sep) ==
    IF \A i \in 1..Len(text) : text[i] # sep THEN <<text>>
    ELSE LET i == CHOOSE j \in 1..Len(text) :
                      text[j] = sep /\ \A k \in 1..(j - 1) : text[k] # sep
         IN  <<SubSeq(text, 1, i - 1)>> \o Split(SubSeq(text, i + 1, Len(text)), sep)

(***************************************************************************)
(* Python values handed to the client.  Every value is a record with the   *)
(* same fields: t the type, s the text of a str or the decimal text of an  *)
(* int, l the entries of a list of marker dicts, ss the entries of a list  *)
(* of str.  A marker dict is the sequence of its <<key, value>> items in   *)
(* insertion order, keys distinct.                                         *)
(***************************************************************************)
None == [t |-> "none", s |-> <<>>, l |-> <<>>, ss |-> <<>>]
StrV(text) == [t |-> "str", s |-> text, l |-> <<>>, ss |-> <<>>]
IntV(digits) == [t |-> "int", s |-> <<digits>>, l |-> <<>>, ss |-> <<>>]
\* a list of marker dicts
ListV(markers) == [t |-> "list", s |-> <<>>, l |-> markers, ss |-> <<>>]
\* a list of str
StrListV(texts) == [t |-> "strs", s |-> <<>>, l |-> <<>>, ss |-> texts]
\* bytes of a response body
BytesV(text) == [t |-> "bytes", s |-> text, l |-> <<>>, ss |-> <<>>]
BoolTrue == [t |-> "bool", s |-> <<"True">>, l |-> <<>>, ss |-> <<>>]

\* Python truthiness: `if value:`
Truthy(v) ==
    CASE v.t = "none" -> FALSE
      [] v.t = "str" -> v.s # <<>>
      [] v.t = "bytes" -> v.s # <<>>
      [] v.t = "list" -> v.l # <<>>
      [] v.t = "strs" -> v.ss # <<>>
      [] v.t = "int" -> v.s # <<"0">>
      [] OTHER -> TRUE

\* dict helpers over a sequence of <<key, value>> items
Keys(d) == {d[i][1] : i \in 1..Len(d)}
Get(d, k) == d[CHOOSE i \in 1..Len(d) : d[i][1] = k][2]
\* d[k] = v : an existing key keeps its position, a new key goes last
Put(d, k, v) ==
    IF k \in Keys(d)
    THEN [i \in 1..Len(d) |-> IF d[i][1] = k THEN <<k, v>> ELSE d[i]]
    ELSE Append(d, <<k, v>>)

(***************************************************************************)
(* Marker serialization of get_map.                                        *)
(***************************************************************************)
StyleKeys == <<"color", "label", "size">>

\* parts taken in the marker's own key order (`for key in marker`)
marker_parts_own_order(marker) ==
    [i \in 1..Len(marker) |->
        IF marker[i][1] = "location" THEN marker[i][2]
        ELSE <<marker[i][1], ":">> \o marker[i][2]]

\* the inner loop and the location test: the parts of one marker
marker_parts(marker) ==
    LET style(i) == IF StyleKeys[i] \in Keys(marker)
                    THEN <<<<StyleKeys[i], ":">> \o Get(marker, StyleKeys[i])>>
                    ELSE <<>>
    IN  style(1) \o style(2) \o style(3)
        \o (IF "location" \in Keys(marker) THEN <<Get(marker, "location")>> ELSE <<>>)

\* "|".join(marker_parts)
marker_string(marker) == Join(marker_parts(marker), <<"|">>)

\* an outer loop that skips a marker without location
marker_strings_skip(markers) ==
    LET kept == SelectSeq(markers, LAMBDA m : "location" \in Keys(m))
    IN  [i \in 1..Len(kept) |-> marker_string(kept[i])]

\* the outer loop: one string per marker, in input order
marker_strings(markers) == [i \in 1..Len(markers) |-> marker_string(markers[i])]

(***************************************************************************)
(* Text conversions: str(), repr() and urllib's quote_plus / urlencode.    *)
(***************************************************************************)
\* quote_plus on one atom: a space becomes "+", a reserved character its
\* percent escape, a word stays as it is
quote_atom(a) ==
    CASE a = " " -> "+"
      [] a = "," -> "%2C"
      [] a = "|" -> "%7C"
      [] a = ":" -> "%3A"
      [] a = "=" -> "%3D"
      [] a = "&" -> "%26"
      [] a = "?" -> "%3F"
      [] a = "/" -> "%2F"
      [] a = "[" -> "%5B"
      [] a = "]" -> "%5D"
      [] a = "{" -> "%7B"
      [] a = "}" -> "%7D"
      [] a = "'" -> "%27"
      [] OTHER -> a

quote_plus(text) == [i \in 1..Len(text) |-> quote_atom(text[i])]

\* repr() of a str without quotes or backslashes in it
repr_str(text) == <<"'">> \o text \o <<"'">>

\* repr() of a dict of str to str
repr_dict(d) ==
    <<"{">>
    \o Join([i \in 1..Len(d) |-> repr_str(<<d[i][1]>>) \o <<":", " ">> \o repr_str(d[i][2])],
            <<",", " ">>)
    \o <<"}">>

\* str() of a value; str() of a list is its repr()
str(v) ==
    CASE v.t = "none" -> <<"None">>
      [] v.t = "list" ->
            <<"[">> \o Join([i \in 1..Len(v.l) |-> repr_dict(v.l[i])], <<",", " ">>) \o <<"]">>
      [] v.t = "strs" ->
            <<"[">> \o Join([i \in 1..Len(v.ss) |-> repr_str(v.ss[i])], <<",", " ">>) \o <<"]">>
      [] OTHER -> v.s

\* one name=value entry of a query string
query_entry(k, text) == quote_plus(<<k>>) \o <<"=">> \o quote_plus(text)

\* urllib.parse.urlencode(params) without doseq: every value goes through
\* str(), a list included
urlencode(params) ==
    Join([i \in 1..Len(params) |-> query_entry(params[i][1], str(params[i][2]))], <<"&">>)

\* requests' encoding of params: a None value is dropped, a list value gives
\* one (name, entry) pair per entry, anything else one pair
requests_pairs(params) ==
    Flatten([i \in 1..Len(params) |->
        LET k == params[i][1]
            v == params[i][2]
        IN  CASE v.t = "none" -> <<>>
              [] v.t = "strs" -> [j \in 1..Len(v.ss) |-> <<k, v.ss[j]>>]
              [] OTHER -> <<<<k, str(v)>>>>])

\* the query string requests sends for the pairs (urlencode with doseq)
requests_query(pairs) ==
    Join([i \in 1..Len(pairs) |-> query_entry(pairs[i][1], pairs[i][2])], <<"&">>)

(***************************************************************************)
(* The client's pure parts.                                                *)
(***************************************************************************)
base_url ==
    <<"https", ":", "/", "/", "maps.googleapis.com", "/", "maps", "/", "api", "/", "staticmap">>

\* the defaults of get_map's signature
DefaultZoom == IntV("13")
DefaultSize == StrV(<<"600x400">>)
DefaultMaptype == StrV(<<"roadmap">>)

\* the value a call passes for a parameter, or the signature's default
Arg(kwargs, name, default) == IF name \in Keys(kwargs) THEN Get(kwargs, name) ELSE default

\* get_map, up to the request: the params dict
get_map_params(api_key, kwargs) ==
    LET center == Arg(kwargs, "center", None)
        zoom == Arg(kwargs, "zoom", DefaultZoom)
        size == Arg(kwargs, "size", DefaultSize)
        maptype == Arg(kwargs, "maptype", DefaultMaptype)
        markers == Arg(kwargs, "markers", None)
        path == Arg(kwargs, "path", None)
        p0 == <<<<"key", StrV(api_key)>>, <<"size", size>>, <<"maptype", maptype>>,
                <<"zoom", zoom>>>>
        p1 == IF Truthy(center) THEN Put(p0, "center", center) ELSE p0
        p2 == IF Truthy(markers)
              THEN Put(p1, "markers", StrListV(marker_strings(markers.l)))
              ELSE p1
    IN  IF Truthy(path) THEN Put(p2, "path", path) ELSE p2

\* a comprehension that keeps every item
not_none_keep_all(kwargs) == kwargs

\* the dict comprehension of get_map_url
not_none(kwargs) == SelectSeq(kwargs, LAMBDA item : item[2].t # "none")

\* get_map_url
get_map_url(api_key, kwargs) ==
    base_url \o <<"?">> \o urlencode(Put(not_none(kwargs), "key", StrV(api_key)))

(***************************************************************************)
(* Paths and the filesystem.  A path is the sequence of its components;    *)
(* <<>> is the working directory.                                          *)
(***************************************************************************)
DirNames == <<"output", "maps", "sf", "tiles", "z">>
FileName == "map.png"

\* the first d directory names, nested
DirChain(d) == SubSeq(DirNames, 1, d)

\* the text of a destination of depth d: output/maps/map.png
DestText(d) == Join([i \in 1..d |-> IF i = d THEN <<FileName>> ELSE <<DirNames[i]>>], <<"/">>)

\* Path(save_as): the components of the text
Path(text) == LET pieces == Split(text, "/") IN [i \in 1..Len(pieces) |-> pieces[i][1]]

\* Path.parent
Parent(path) == SubSeq(path, 1, Len(path) - 1)

\* the path and every ancestor of it
Prefixes(path) == {SubSeq(path, 1, n) : n \in 0..Len(path)}

(***************************************************************************)
(* Inputs.                                                                 *)
(***************************************************************************)
ApiKeyName == "GOOGLE_MAPS_API_KEY"

\* what a caller passes as api_key, and what the environment holds
TestKey == StrV(<<"test_key">>)
ExplicitKeys == {None, StrV(<<>>), TestKey}
EnvValues == {None, StrV(<<>>), StrV(<<"env_key">>)}

\* marker dicts: all keys in the order of the encoding, all keys in another
\* order, location alone, style without location, no recognized key, empty
Markers ==
    { <<<<"color", <<"red">>>>, <<"label", <<"G">>>>, <<"size", <<"mid">>>>,
        <<"location", <<"Golden", " ", "Gate", ",", " ", "CA">>>>>>,
      <<<<"location", <<"Alcatraz">>>>, <<"size", <<"tiny">>>>, <<"color", <<"blue">>>>>>,
      <<<<"location", <<"40.7", ",", "-74.0">>>>>>,
      <<<<"label", <<"A">>>>, <<"color", <<"blue">>>>>>,
      <<<<"icon", <<"flag">>>>>>,
      <<>> }

RECURSIVE SeqsUpTo(_, _)
SeqsUpTo(S, n) ==
    IF n = 0 THEN {<<>>}
    ELSE LET shorter == SeqsUpTo(S, n - 1)
         IN  shorter \cup {Append(q, x) : q \in {r \in shorter : Len(r) = n - 1}, x \in S}

MarkerLists == SeqsUpTo(Markers, MaxMarkers)

\* a keyword argument: left out, or one of the values
Omitted == [t |-> "omitted", s |-> <<>>, l |-> <<>>, ss |-> <<>>]
Centers == {Omitted, None, StrV(<<>>), StrV(<<"New", " ", "York", ",", " ", "NY">>)}
Zooms == {Omitted, IntV("15")}
Sizes == {Omitted, StrV(<<"640x640">>)}
Paths == {Omitted, StrV(<<>>), StrV(<<"color", ":", "red", "|", "A", "|", "B">>)}
MarkerArgs == {Omitted, None} \cup {ListV(m) : m \in MarkerLists}
CallerKeys == {Omitted, StrV(<<"other_key">>)}

\* the keyword arguments of a call, in the order the caller wrote them
MakeKwargs(center, zoom, size, markers, path, key) ==
    SelectSeq(<<<<"center", center>>, <<"zoom", zoom>>, <<"size", size>>,
                <<"markers", markers>>, <<"path", path>>, <<"key", key>>>>,
              LAMBDA item : item[2].t # "omitted")

\* the calls whose keyword arguments vary (get_map takes those without key)
UrlKwargs ==
    {MakeKwargs(c, z, s, m, p, k) :
        c \in Centers, z \in Zooms, s \in Sizes, m \in MarkerArgs, p \in Paths, k \in CallerKeys}

\* the calls of get_map made while the filesystem and the transport vary
FetchKwargs ==
    { <<>>,
      MakeKwargs(StrV(<<"Times", " ", "Square">>), IntV("15"), Omitted,
                 ListV(<<<<<<"label", <<"A">>>>>>, <<<<"location", <<"Alcatraz">>>>>>>>),
                 Omitted, Omitted) }

\* save_as: absent, the empty string, or a destination of each depth
Destinations == {None, StrV(<<>>)} \cup {StrV(DestText(d)) : d \in 1..MaxDepth}

Bodies == {<<"PNG", ":", "1">>, <<"error", " ", "text">>}
Statuses == {200, 204, 304, 400, 500}
ConnectionFailed == [status |-> 0, content |-> <<>>]
NoResponse == [status |-> -1, content |-> <<>>]
Responses == [status : Statuses, content : Bodies]
OkResponse == [status |-> 200, content |-> <<"PNG", ":", "1">>]

\* the outcome of an operation: a return value or an exception
NoOutcome == [status |-> 0, kind |-> "none", value |-> None, body |-> <<>>, msg |-> <<>>]
Return(v) == [status |-> 0, kind |-> "return", value |-> v, body |-> <<>>, msg |-> <<>>]
Raise(kind, status, body, msg) ==
    [status |-> status, kind |-> kind, value |-> None, body |-> body, msg |-> msg]

(***************************************************************************)
(* State.                                                                  *)
(***************************************************************************)
VARIABLES
    args,       \* the keyword arguments the calling script passes
    env,        \* the environment's value of GOOGLE_MAPS_API_KEY (None: unset)
    api_key,    \* the client's api_key (None: no client has been constructed)
    consulted,  \* the names get_api_key has looked up
    pc,         \* "idle", or the position of the get_map call in progress
    op,         \* the operation that ran last or is running
    kwargs,     \* its keyword arguments
    save_as,    \* its save_as argument
    params,     \* the params dict of get_map
    sent,       \* the requests issued by the call, each with url and pairs
    response,   \* the response to the call's request
    outcome,    \* what the operation returned or raised
    dirs,       \* the directories that exist
    files,      \* the files that exist, with their bytes
    touched     \* the filesystem operations of the call

vars == <<args, env, api_key, consulted, pc, op, kwargs, save_as, params, sent, response,
          outcome, dirs, files, touched>>

client_vars == <<args, env, api_key, consulted>>
fs_vars == <<dirs, files>>
frame_vars == <<op, kwargs, save_as, params, sent, response, outcome, touched>>

\* the filesystems a run may start from: the first k nested directories
\* exist, and in the deepest of them there is nothing, a file where the next
\* directory would go, an old file at the destination, or a directory there
InitialFs ==
    { [dirs |-> Prefixes(DirChain(k)), files |-> <<>>] : k \in 0..(MaxDepth - 1) }
    \cup { [dirs |-> Prefixes(DirChain(k)),
            files |-> (Append(DirChain(k), DirNames[k + 1]) :> <<"old">>)]
           : k \in 0..(MaxDepth - 2) }
    \cup { [dirs |-> Prefixes(DirChain(k)),
            files |-> (Append(DirChain(k), FileName) :> <<"old">>)]
           : k \in 0..(MaxDepth - 1) }
    \cup { [dirs |-> Prefixes(DirChain(k)) \cup {Append(DirChain(k), FileName)},
            files |-> <<>>]
           : k \in 0..(MaxDepth - 1) }

Init ==
    /\ args \in FetchKwargs
    /\ env \in EnvValues
    /\ api_key = None
    /\ consulted = <<>>
    /\ pc = "idle"
    /\ op = "none"
    /\ kwargs = <<>>
    /\ save_as = None
    /\ params = <<>>
    /\ sent = <<>>
    /\ response = NoResponse
    /\ outcome = NoOutcome
    /\ \E fs \in InitialFs : dirs = fs.dirs /\ files = fs.files
    /\ touched = <<>>

(***************************************************************************)
(* Construction.                                                           *)
(***************************************************************************)
NotFoundMessage(key_name) ==
    <<key_name, " ", "not", " ", "found.", " ", "Please", " ", "set", " ", "it", " ", "in",
      " ", "local", "/", ".env">>

\* get_api_key that tests `value is None` instead of `not value`
get_api_key_none_only(key_name) ==
    IF env = None THEN Raise("ValueError", 0, <<>>, NotFoundMessage(key_name))
    ELSE Return(env)

\* config.get_api_key: the environment's value, or ValueError when it is
\* unset or empty
get_api_key(key_name) ==
    IF ~Truthy(env) THEN Raise("ValueError", 0, <<>>, NotFoundMessage(key_name))
    ELSE Return(env)

\* whether __init__ takes the caller's api_key (`if api_key:`)
uses_explicit_key(key) == Truthy(key)

\* GoogleStaticMaps(api_key=key)
Construct(key) ==
    /\ pc = "idle"
    /\ op = "none"
    /\ op' = "__init__"
    /\ kwargs' = <<<<"api_key", key>>>>
    /\ IF uses_explicit_key(key)
       THEN /\ api_key' = key
            /\ outcome' = Return(None)
            /\ UNCHANGED consulted
       ELSE LET found == get_api_key(ApiKeyName)
            IN  /\ consulted' = Append(consulted, ApiKeyName)
                /\ outcome' = IF found.kind = "return" THEN Return(None) ELSE found
                /\ api_key' = IF found.kind = "return" THEN found.value ELSE api_key
    /\ UNCHANGED <<args, env, pc, save_as, params, sent, response, dirs, files, touched>>

(***************************************************************************)
(* get_map, step by step.                                                  *)
(***************************************************************************)
\* the call, up to the request: the params dict is built (the signature
\* has no key parameter)
GetMapBuild(kw, dest) ==
    /\ pc = "idle"
    /\ api_key # None
    /\ "key" \notin Keys(kw)
    /\ op' = "get_map"
    /\ kwargs' = kw
    /\ save_as' = dest
    /\ params' = get_map_params(api_key.s, kw)
    /\ sent' = <<>>
    /\ response' = NoResponse
    /\ outcome' = NoOutcome
    /\ touched' = <<>>
    /\ pc' = "request"
    /\ UNCHANGED <<client_vars, fs_vars>>

\* what requests.get(self.base_url, params=params) puts on the wire
request_of(p) ==
    LET pairs == requests_pairs(p)
    IN  [pairs |-> pairs, url |-> base_url \o <<"?">> \o requests_query(pairs)]

\* requests.get: the request goes out; a response comes back, or the
\* transport fails and requests raises
GetMapRequest(r) ==
    /\ pc = "request"
    /\ sent' = Append(sent, request_of(params))
    /\ IF r = ConnectionFailed
       THEN /\ outcome' = Raise("ConnectionError", 0, <<>>, <<"connection", " ", "failed">>)
            /\ pc' = "idle"
            /\ UNCHANGED response
       ELSE /\ response' = r
            /\ pc' = "check"
            /\ UNCHANGED outcome
    /\ UNCHANGED <<client_vars, fs_vars, op, kwargs, save_as, params, touched>>

\* a status check that lets 400 itself through
raise_for_status_above_400(status) == 400 < status /\ status < 600

\* a get_map without the status check
raise_for_status_never(status) == FALSE

\* whether response.raise_for_status() raises: a client or a server error
raise_for_status(status) == 400 <= status /\ status < 600

\* whether get_map persists the body (`if save_as:`)
persists(dest) == Truthy(dest)

\* response.raise_for_status(), then the branch on save_as
GetMapCheck ==
    /\ pc = "check"
    /\ IF raise_for_status(response.status)
       THEN /\ outcome' = Raise("HTTPError", response.status, response.content,
                                <<"status", " ", "error">>)
            /\ pc' = "idle"
       ELSE IF persists(save_as)
            THEN /\ pc' = "mkdir"
                 /\ UNCHANGED outcome
            ELSE /\ outcome' = Return(BytesV(response.content))
                 /\ pc' = "idle"
    /\ UNCHANGED <<client_vars, fs_vars, op, kwargs, save_as, params, sent, response, touched>>

\* whether mkdir(parents=True, exist_ok=True) of directory d fails: d or an
\* ancestor of it is a file
mkdir_fails(d) == \E a \in Prefixes(d) : a \in DOMAIN files

\* the directories after a successful mkdir(parents=True, exist_ok=True)
mkdir_parents(d) == dirs \cup Prefixes(d)

\* save_path.parent.mkdir(parents=True, exist_ok=True)
GetMapMkdir ==
    /\ pc = "mkdir"
    /\ LET parent == Parent(Path(save_as.s))
       IN  /\ touched' = Append(touched, <<"mkdir", parent>>)
           /\ IF mkdir_fails(parent)
              THEN /\ outcome' = Raise("OSError", 0, <<>>, <<"mkdir">>)
                   /\ pc' = "idle"
                   /\ UNCHANGED dirs
              ELSE /\ dirs' = mkdir_parents(parent)
                   /\ pc' = "write"
                   /\ UNCHANGED outcome
    /\ UNCHANGED <<client_vars, files, op, kwargs, save_as, params, sent, response>>

\* a write that creates the file and leaves it empty
write_bytes_empty(path, content) ==
    [q \in DOMAIN files \cup {path} |-> IF q = path THEN <<>> ELSE files[q]]

\* the files after save_path.write_bytes(content)
write_bytes(path, content) ==
    [q \in DOMAIN files \cup {path} |-> IF q = path THEN content ELSE files[q]]

\* the value get_map returns after persisting
persisted_value == BoolTrue

\* save_path.write_bytes(response.content); return True
GetMapWrite ==
    /\ pc = "write"
    /\ LET path == Path(save_as.s)
       IN  /\ touched' = Append(touched, <<"write", path>>)
           /\ IF path \in dirs
              THEN /\ outcome' = Raise("OSError", 0, <<>>, <<"write">>)
                   /\ UNCHANGED files
              ELSE /\ files' = write_bytes(path, response.content)
                   /\ outcome' = Return(persisted_value)
    /\ pc' = "idle"
    /\ UNCHANGED <<client_vars, dirs, op, kwargs, save_as, params, sent, response>>

(***************************************************************************)
(* get_map_url.                                                            *)
(***************************************************************************)
GetMapUrl(kw) ==
    /\ pc = "idle"
    /\ api_key # None
    /\ op' = "get_map_url"
    /\ kwargs' = kw
    /\ save_as' = None
    /\ params' = <<>>
    /\ sent' = <<>>
    /\ response' = NoResponse
    /\ touched' = <<>>
    /\ outcome' = Return(StrV(get_map_url(api_key.s, kw)))
    /\ UNCHANGED <<client_vars, fs_vars, pc>>

(***************************************************************************)
(* Specifications.  Spec varies the credential sources, the destination,   *)
(* the transport's answer and the filesystem; SpecUrl varies the keyword   *)
(* arguments.                                                              *)
(***************************************************************************)
Next ==
    \/ \E key \in ExplicitKeys : Construct(key)
    \/ \E dest \in Destinations : GetMapBuild(args, dest)
    \/ \E r \in Responses \cup {ConnectionFailed} : GetMapRequest(r)
    \/ GetMapCheck
    \/ GetMapMkdir
    \/ GetMapWrite
    \/ GetMapUrl(args)

Spec == Init /\ [][Next]_vars

InitUrl ==
    /\ args \in UrlKwargs
    /\ env = None
    /\ api_key = None
    /\ consulted = <<>>
    /\ pc = "idle"
    /\ op = "none"
    /\ kwargs = <<>>
    /\ save_as = None
    /\ params = <<>>
    /\ sent = <<>>
    /\ response = NoResponse
    /\ outcome = NoOutcome
    /\ dirs = {<<>>}
    /\ files = <<>>
    /\ touched = <<>>

NextUrl ==
    \/ Construct(TestKey)
    \/ GetMapBuild(args, None)
    \/ \E r \in {OkResponse, ConnectionFailed} : GetMapRequest(r)
    \/ GetMapCheck
    \/ GetMapUrl(args)

SpecUrl == InitUrl /\ [][NextUrl]_vars

(***************************************************************************)
(* Properties.                                                             *)
(***************************************************************************)
Range(s) == {s[i] : i \in 1..Len(s)}

\* number of entries of a sequence that are equal to x
Count(s, x) == Cardinality({i \in 1..Len(s) : s[i] = x})

\* whether text starts with prefix
StartsWith(text, prefix) ==
    Len(text) >= Len(prefix) /\ SubSeq(text, 1, Len(prefix)) = prefix

\* whether piece occurs in text as a contiguous run of atoms
Contains(text, piece) ==
    \E i \in 0..(Len(text) - Len(piece)) : SubSeq(text, i + 1, i + Len(piece)) = piece

\* get_map has returned or raised
MapDone == op = "get_map" /\ pc = "idle"

\* the status is a client or a server error
ErrorStatus(status) == status \in 400..599

\* C1: constructing the client with no usable explicit key while the
\* environment's GOOGLE_MAPS_API_KEY is unset or empty raises an error whose
\* message contains "GOOGLE_MAPS_API_KEY" and leaves no client; constructing
\* it with a non-empty explicit key succeeds with that key and never looks
\* the environment up.
C1_ConstructionCredential ==
    op = "__init__" =>
        LET key == Get(kwargs, "api_key")
        IN  /\ (key.s = <<>> /\ env.s = <<>>) =>
                    /\ outcome.kind = "ValueError"
                    /\ Contains(outcome.msg, <<"GOOGLE_MAPS_API_KEY">>)
                    /\ api_key = None
            /\ (key.s # <<>>) =>
                    /\ outcome.kind = "return"
                    /\ api_key = key
                    /\ consulted = <<>>

\* C1 witness: a construction without explicit key failed on an environment
\* value that is set but empty.
C1_Witness ==
    /\ op = "__init__"
    /\ Get(kwargs, "api_key") = None
    /\ env = StrV(<<>>)
    /\ outcome.kind = "ValueError"

\* C2: a get_map call that returns, given a destination, has written the
\* response bytes to exactly that path (every other file as it was), the
\* parent and all its ancestors exist, and it returns True; given no
\* destination it returns the response bytes and no step of the call touches
\* the filesystem.
C2_PersistOrReturn ==
    [][ LET returned == op' = "get_map" /\ pc # "idle" /\ pc' = "idle"
                        /\ outcome'.kind = "return"
        IN  /\ (returned /\ save_as'.s # <<>>) =>
                LET path == Path(save_as'.s)
                IN  /\ outcome'.value = BoolTrue
                    /\ DOMAIN files' = DOMAIN files \cup {path}
                    /\ files'[path] = response'.content
                    /\ \A q \in DOMAIN files \ {path} : files'[q] = files[q]
                    /\ Prefixes(Parent(path)) \subseteq dirs'
                    /\ dirs \subseteq dirs'
            /\ (returned /\ save_as'.s = <<>>) =>
                    /\ outcome'.value = BytesV(response'.content)
                    /\ touched' = <<>>
            /\ (op' = "get_map" /\ save_as'.s = <<>>) => UNCHANGED <<dirs, files>>
      ]_vars

\* C2 witness: a call with the deepest destination returned True with the
\* body in the file.
C2_Witness ==
    /\ MapDone
    /\ outcome = Return(BoolTrue)
    /\ save_as = StrV(DestText(MaxDepth))
    /\ Path(save_as.s) \in DOMAIN files
    /\ files[Path(save_as.s)] = response.content
    /\ Len(touched) = 2

C10_SaveOnlyAfterSuccess ==
    [][ /\ Len(sent') <= 1
        /\ (dirs' # dirs \/ files' # files \/ (touched' # touched /\ touched' # <<>>)) =>
                /\ pc \in {"mkdir", "write"}
                /\ Len(sent) = 1
                /\ response # NoResponse
                /\ ~ErrorStatus(response.status)
        /\ (pc = "check" /\ ErrorStatus(response.status)) =>
                (pc' = "idle" /\ outcome'.kind = "HTTPError")
        /\ (pc # "idle" /\ outcome'.kind \in {"HTTPError", "ConnectionError"}) =>
                /\ pc' = "idle"
                /\ Len(sent') = 1
                /\ touched' = <<>>
                /\ UNCHANGED <<dirs, files>>
      ]_vars

\* C10 witness: a call with a destination ended with HTTPError after one
\* request, the filesystem untouched.
C10_Witness ==
    /\ MapDone
    /\ save_as.s # <<>>
    /\ outcome.kind = "HTTPError"
    /\ Len(sent) = 1
    /\ touched = <<>>

\* the name=value entries of a URL's query string
Entries(url) ==
    LET q == CHOOSE i \in 1..Len(url) : url[i] = "?" /\ \A j \in 1..(i - 1) : url[j] # "?"
    IN  Split(SubSeq(url, q + 1, Len(url)), "&")

\* the entries of a parameter
EntriesNamed(entries, name) == SelectSeq(entries, LAMBDA e : StartsWith(e, <<name, "=">>))

\* the value a marker dict holds for a key
MarkerValue(marker, k) == (CHOOSE item \in Range(marker) : item[1] = k)[2]

\* the encoding the specification gives for a marker: color, label, size as
\* key:value when present, in that order, then the location when present,
\* joined by "|"
ExpectedMarker(marker) ==
    LET has(k) == \E item \in Range(marker) : item[1] = k
        order == SelectSeq(<<"color", "label", "size", "location">>, has)
    IN  Join([i \in 1..Len(order) |->
                IF order[i] = "location" THEN MarkerValue(marker, "location")
                ELSE <<order[i], ":">> \o MarkerValue(marker, order[i])],
             <<"|">>)

\* the percent-encoding of the reserved characters that occur in the inputs
ExpectedEscape(a) ==
    CASE a = " " -> "+"
      [] a = "," -> "%2C"
      [] a = "|" -> "%7C"
      [] a = ":" -> "%3A"
      [] OTHER -> a

ExpectedQuote(text) == [i \in 1..Len(text) |-> ExpectedEscape(text[i])]

\* the markers argument of the call, when it is a list
MarkersArg == IF "markers" \in Keys(kwargs) THEN Get(kwargs, "markers") ELSE None

\* the call passes a marker without location
LacksLocation ==
    /\ MarkersArg.t = "list"
    /\ \E i \in 1..Len(MarkersArg.l) : \A item \in Range(MarkersArg.l[i]) : item[1] # "location"

\* the markers pairs of the request the call issued
SentMarkers == SelectSeq(sent[1].pairs, LAMBDA pair : pair[1] = "markers")

\* C4 as stated: for a non-empty marker list, the URL of get_map_url holds
\* one markers entry per marker, each the percent-encoded
\* color:..|label:..|size:..|location encoding of that marker.
C4_UrlMarkerEntries ==
    (op = "get_map_url" /\ MarkersArg.t = "list" /\ MarkersArg.l # <<>>) =>
        LET got == EntriesNamed(Entries(outcome.value.s), "markers")
        IN  /\ Len(got) = Len(MarkersArg.l)
            /\ \A i \in 1..Len(got) :
                    got[i] = <<"markers", "=">> \o ExpectedQuote(ExpectedMarker(MarkersArg.l[i]))

\* C5 as stated: the entries of the URL get_map_url returns are, as a set,
\* the entries of the request get_map sends for the same keyword arguments.
C5_UrlMatchesRequest ==
    (op = "get_map" /\ Len(sent) = 1) =>
        Range(Entries(get_map_url(api_key.s, kwargs))) = Range(Entries(sent[1].url))

\* C6 as stated: with an empty marker list neither the URL of get_map_url nor
\* the request of get_map holds a markers entry.
C6_EmptyListOmitted ==
    (MarkersArg.t = "list" /\ MarkersArg.l = <<>>) =>
        /\ op = "get_map_url" => EntriesNamed(Entries(outcome.value.s), "markers") = <<>>
        /\ (op = "get_map" /\ Len(sent) = 1) =>
                /\ SentMarkers = <<>>
                /\ EntriesNamed(Entries(sent[1].url), "markers") = <<>>

\* C7 as stated: a marker without location ends get_map with EncodingError
\* while the parameters are built, and no request is issued.
C7_MissingLocationRejected ==
    (op = "get_map" /\ LacksLocation) =>
        /\ pc = "idle"
        /\ outcome.kind = "EncodingError"
        /\ sent = <<>>

\* C7 amended: a marker without location raises nothing while the parameters
\* are built: the params hold one markers string per input marker, that
\* marker's string being built from its style keys alone, and the call goes
\* on to issue its one request with one markers pair per input marker.
C7_MissingLocationSent ==
    (op = "get_map" /\ LacksLocation) =>
        /\ outcome.kind \in {"none", "return", "ConnectionError", "HTTPError"}
        /\ "markers" \in Keys(params)
        /\ Len(Get(params, "markers").ss) = Len(MarkersArg.l)
        /\ \A i \in 1..Len(MarkersArg.l) :
                ~(\E item \in Range(MarkersArg.l[i]) : item[1] = "location") =>
                    Get(params, "markers").ss[i] = ExpectedMarker(MarkersArg.l[i])
        /\ pc # "request" => (Len(sent) = 1 /\ Len(SentMarkers) = Len(MarkersArg.l))

\* C7 witness: a call with a marker without location has issued its request
\* and returned.
C7_Witness ==
    /\ MapDone
    /\ LacksLocation
    /\ Len(MarkersArg.l) = 2
    /\ Len(sent) = 1
    /\ outcome.kind = "return"

\* C8: the string get_map sends for each marker is key:value for each of
\* color, label, size that is present, in that order whatever the marker's
\* own key order, then the location if present, joined by "|" with no "|" at
\* either end; location alone gives the location, no recognized key gives
\* the empty string; the strings are one per marker, in input order.
C8_MarkerEncoding ==
    (op = "get_map" /\ MarkersArg.t = "list" /\ MarkersArg.l # <<>>) =>
        LET built == Get(params, "markers").ss
        IN  /\ Len(built) = Len(MarkersArg.l)
            /\ \A i \in 1..Len(built) :
                    LET m == MarkersArg.l[i]
                    IN  /\ built[i] = ExpectedMarker(m)
                        /\ built[i] # <<>> => (built[i][1] # "|" /\ built[i][Len(built[i])] # "|")
                        /\ Keys(m) = {"location"} => built[i] = MarkerValue(m, "location")
                        /\ Keys(m) \cap {"color", "label", "size", "location"} = {} =>
                                built[i] = <<>>
            /\ Len(sent) = 1 =>
                    SentMarkers = [i \in 1..Len(built) |-> <<"markers", ExpectedMarker(MarkersArg.l[i])>>]

\* C8 witness: a request went out for two markers, the first with its keys
\* in another order than the encoding's, the second with no recognized key.
C8_Witness ==
    /\ op = "get_map"
    /\ Len(sent) = 1
    /\ MarkersArg.t = "list"
    /\ Len(MarkersArg.l) = 2
    /\ "color" \in Keys(MarkersArg.l[1])
    /\ MarkersArg.l[1][1][1] = "location"
    /\ Keys(MarkersArg.l[2]) = {"icon"}

\* C9: the URL get_map_url returns is the base endpoint, "?", and a query in
\* which every keyword argument that is not None (the caller's own key
\* aside) appears once as its percent-encoded name=value entry, space as "+"
\* and comma as "%2C"; no keyword argument that is None appears; and key
\* appears exactly once, with the client's credential.
C9_UrlOfKwargs ==
    op = "get_map_url" =>
        LET url == outcome.value.s
            entries == Entries(url)
        IN  /\ StartsWith(url, base_url \o <<"?">>)
            /\ \A i \in 1..Len(kwargs) :
                    LET name == kwargs[i][1]
                        v == kwargs[i][2]
                    IN  /\ (v # None /\ name # "key") =>
                                /\ Len(EntriesNamed(entries, name)) = 1
                                /\ EntriesNamed(entries, name)[1]
                                        = <<name, "=">> \o quote_plus(str(v))
                        /\ (v.t \in {"str", "int"} /\ name # "key") =>
                                EntriesNamed(entries, name)[1] = <<name, "=">> \o ExpectedQuote(v.s)
                        /\ v = None => EntriesNamed(entries, name) = <<>>
            /\ EntriesNamed(entries, "key") = << <<"key", "=">> \o api_key.s >>
            /\ \A i \in 1..Len(url) : url[i] \notin {" ", ","}
            /\ ("center" \in Keys(kwargs)
                    /\ Get(kwargs, "center") = StrV(<<"New", " ", "York", ",", " ", "NY">>)) =>
                  Count(entries, <<"center", "=", "New", "+", "York", "%2C", "+", "NY">>) = 1

\* C9 witness: a URL was built for a call that passes a center with spaces
\* and a comma, a None argument and its own key.
C9_Witness ==
    /\ op = "get_map_url"
    /\ "center" \in Keys(kwargs)
    /\ Get(kwargs, "center") = StrV(<<"New", " ", "York", ",", " ", "NY">>)
    /\ "markers" \in Keys(kwargs)
    /\ Get(kwargs, "markers") = None
    /\ "key" \in Keys(kwargs)
    /\ Get(kwargs, "key") # api_key
    /\ Contains(outcome.value.s, <<"center", "=", "New", "+", "York", "%2C", "+", "NY">>)

=============================================================================
